---- MODULE Spec2Model ----
(***************************************************************************)
(* A model of the tetris engine of src/src/lib.rs: the board, the seven    *)
(* tetrominoes, translate / rotate_counter_clockwise, done_falling,        *)
(* insert_falling, clear_completed_lines, update_game_state and the loop   *)
(* of Game::run, one action per sequential stage of a loop iteration.      *)
(* Rendering and terminal set-up are left out: they never write a field of *)
(* Game other than stdout.                                                 *)
(***************************************************************************)
EXTENDS Integers, Sequences, FiniteSets, TLC

VARIABLES
    board,      \* Game.board: row y -> column x -> cell string
    score,      \* Game.score
    width,      \* Game.width
    height,     \* Game.height
    falling,    \* Game.falling: None or Some(t)
    state,      \* Game.state: "PLAY" or "LOSE"
    pc,         \* position of the thread inside Game::run (or of a test driver)
    key,        \* what stdin.next() returned in this iteration (NoKey before the poll)
    call,       \* history: the function the last step called, its piece and its result
    spawned,    \* number of tetrominoes drawn so far
    prev,       \* history: board and score as they were before the last step
    start,      \* rotation driver only: the blocks it started from, the rotations accepted
    n,          \* drivers only: number of calls the driver has made
    pending     \* keys typed and not yet read by stdin.next() (SpecInput only)

vars == <<board, score, width, height, falling, state, pc, key, call, spawned, prev, start, n,
          pending>>

----------------------------------------------------------------------------
(* Constants of the program *)

EMPTY_CELL == "· "
BOARD_WIDTH == 10
BOARD_HEIGHT == 20

(* Bounds of the model *)

\* tetrominoes drawn in one game of Spec
MaxPieces == 3
\* board sizes handed to Game::new in Spec
Sizes == {<<4, 5>>}
\* board sizes of the rotation driver (SpecRotate)
RotateSizes == {<<5, 5>>}

----------------------------------------------------------------------------
(* Point and Tetromino *)

Point(px, py) == [x |-> px, y |-> py]

\* impl AddAssign<&Point> for Point
AddAssign(p, other) == [x |-> p.x + other.x, y |-> p.y + other.y]

\* the array [Point; 4], indexed 0..3 as in the source
Blocks(p0, p1, p2, p3) == [i \in 0..3 |-> CASE i = 0 -> p0 [] i = 1 -> p1 [] i = 2 -> p2 [] OTHER -> p3]

Tetromino_i == [blocks |-> Blocks(Point(0, 0), Point(0, 1), Point(0, 2), Point(0, 3)), color |-> "Cyan"]
Tetromino_o == [blocks |-> Blocks(Point(0, 0), Point(0, 1), Point(1, 0), Point(1, 1)), color |-> "Yellow"]
Tetromino_t == [blocks |-> Blocks(Point(0, 0), Point(0, 1), Point(0, 2), Point(1, 1)), color |-> "Magenta"]
Tetromino_j == [blocks |-> Blocks(Point(0, 1), Point(1, 1), Point(2, 0), Point(2, 1)), color |-> "Blue"]
Tetromino_l == [blocks |-> Blocks(Point(0, 0), Point(1, 0), Point(2, 0), Point(2, 1)), color |-> "Orange"]
Tetromino_s == [blocks |-> Blocks(Point(0, 1), Point(0, 2), Point(1, 0), Point(1, 1)), color |-> "Green"]
Tetromino_z == [blocks |-> Blocks(Point(0, 0), Point(0, 1), Point(1, 1), Point(1, 2)), color |-> "Red"]

\* Tetromino::random, r being the value of rng.gen_range(0..7)
Tetromino_random(r) ==
    CASE r = 0 -> Tetromino_i
      [] r = 1 -> Tetromino_o
      [] r = 2 -> Tetromino_t
      [] r = 3 -> Tetromino_j
      [] r = 4 -> Tetromino_l
      [] r = 5 -> Tetromino_s
      [] OTHER -> Tetromino_z

\* Option<Tetromino>
None == <<>>
Some(t) == <<t>>

\* format!("{}[]{}", t.color, style::Reset): the cell a locked block leaves
LockedCell(color) == color \o "[]"

----------------------------------------------------------------------------
(* Game::new *)

EmptyRow(w) == [j \in 0..(w - 1) |-> EMPTY_CELL]
EmptyBoard(w, h) == [i \in 0..(h - 1) |-> EmptyRow(w)]

NoCall == [fn |-> "none", offset |-> Point(0, 0), before |-> None, ret |-> FALSE]
NoKey == "None"

----------------------------------------------------------------------------
(* Game::translate, Game::left, Game::right, Game::down *)

\* a validation that forgets the occupancy test
TranslateFails_BoundsOnly(block, offset, w, h, b) ==
    LET new_x == block.x + offset.x
        new_y == block.y + offset.y
    IN  \/ new_x < 0
        \/ new_x >= w
        \/ new_y < 0
        \/ new_y >= h

\* the validation loop's condition for one block: TRUE when the candidate fails
TranslateFails(block, offset, w, h, b) ==
    LET new_x == block.x + offset.x
        new_y == block.y + offset.y
    IN  \/ new_x < 0
        \/ new_x >= w
        \/ new_y < 0
        \/ new_y >= h
        \/ b[new_y][new_x] # EMPTY_CELL

\* a translate that validates and moves in one loop, stopping at the first failure
translate_Interleaved(t, offset, w, h, b) ==
    LET bad == {i \in 0..3 : TranslateFails(t.blocks[i], offset, w, h, b)}
    IN  IF bad # {}
        THEN [ret |-> FALSE,
              t   |-> [t EXCEPT !.blocks =
                         [i \in 0..3 |-> IF \A k \in bad : i < k
                                         THEN AddAssign(t.blocks[i], offset)
                                         ELSE t.blocks[i]]]]
        ELSE [ret |-> TRUE,
              t   |-> [t EXCEPT !.blocks = [i \in 0..3 |-> AddAssign(t.blocks[i], offset)]]]

translate(t, offset, w, h, b) ==
    IF \E i \in 0..3 : TranslateFails(t.blocks[i], offset, w, h, b)
    THEN [ret |-> FALSE, t |-> t]
    ELSE [ret |-> TRUE,
          t   |-> [t EXCEPT !.blocks = [i \in 0..3 |-> AddAssign(t.blocks[i], offset)]]]

left(t, w, h, b) == translate(t, Point(-1, 0), w, h, b)
right(t, w, h, b) == translate(t, Point(1, 0), w, h, b)
down(t, w, h, b) == translate(t, Point(0, 1), w, h, b)

----------------------------------------------------------------------------
(* Game::rotate_counter_clockwise *)

\* the clockwise formula (y, -x) in place of (-y, x)
RotatedBlock_Clockwise(block, cx, cy) ==
    LET rx == block.x - cx
        ry == block.y - cy
    IN  Point(ry + cx, (-rx) + cy)

\* an update loop that computes the new y from the x it has just overwritten
RotatedBlock_Overwritten(block, cx, cy) ==
    LET ry == block.y - cy
        new_x == (-ry) + cx
    IN  Point(new_x, (new_x - cx) + cy)

\* the update loop's new value of one block for the centre (cx, cy)
RotatedBlock(block, cx, cy) ==
    LET rx == block.x - cx
        ry == block.y - cy
    IN  Point((-ry) + cx, rx + cy)

\* the validation loop's condition for one block: TRUE when its target fails
RotateFails(block, cx, cy, w, h, b) ==
    LET rx == block.x - cx
        ry == block.y - cy
        new_x == (-ry) + cx
        new_y == rx + cy
    IN  \/ new_x < 0
        \/ new_x >= w
        \/ new_y < 0
        \/ new_y >= h
        \/ b[new_y][new_x] # EMPTY_CELL

\* TRUE when the validation loop takes its early return
RotateRejected(t, w, h, b) ==
    \E i \in 0..3 : RotateFails(t.blocks[i], t.blocks[1].x, t.blocks[1].y, w, h, b)

rotate_counter_clockwise(t, w, h, b) ==
    LET cx == t.blocks[1].x
        cy == t.blocks[1].y
    IN  IF RotateRejected(t, w, h, b)
        THEN t
        ELSE [t EXCEPT !.blocks = [i \in 0..3 |-> RotatedBlock(t.blocks[i], cx, cy)]]

----------------------------------------------------------------------------
(* Game::done_falling, Game::insert_falling *)

\* a landing test that looks at the floor only
done_falling_FloorOnly(f, h, b) ==
    /\ f # None
    /\ \E i \in 0..3 : f[1].blocks[i].y >= h - 1

\* a landing test that looks at the cells below only, never at the floor
done_falling_CellsOnly(f, h, b) ==
    /\ f # None
    /\ \E i \in 0..3 :
          LET block == f[1].blocks[i]
          IN  IF block.y >= h - 1
              THEN FALSE
              ELSE b[block.y + 1][block.x] # EMPTY_CELL

done_falling(f, h, b) ==
    /\ f # None
    /\ \E i \in 0..3 :
          LET block == f[1].blocks[i]
          IN  IF block.y >= h - 1
              THEN TRUE
              ELSE b[block.y + 1][block.x] # EMPTY_CELL

\* the board after the loop over t.blocks
insert_falling(f, b) ==
    IF f = None
    THEN b
    ELSE LET t == f[1]
             format == LockedCell(t.color)
         IN  [i \in DOMAIN b |->
                [j \in DOMAIN b[i] |->
                   IF \E k \in 0..3 : t.blocks[k].x = j /\ t.blocks[k].y = i
                   THEN format
                   ELSE b[i][j]]]

----------------------------------------------------------------------------
(* Game::clear_completed_lines *)

\* the inner counting loop for row i
Occupied(b, i, w) == Cardinality({j \in 0..(w - 1) : b[i][j] # EMPTY_CELL})

\* a loop body that resets a qualifying row without pulling the row above down
ClearRow_NoShift(i, b, s, w) ==
    LET occupied == Occupied(b, i, w)
        s2 == IF occupied = w THEN s + 100 ELSE s
        b2 == IF occupied = 0 \/ occupied = w
              THEN [b EXCEPT ![i] = EmptyRow(w)]
              ELSE b
    IN  [board |-> b2, score |-> s2]

\* a loop body that awards the 100 points under the clearing condition
\* (all occupied or all free) instead of the scoring condition
ClearRow_ScoresEmpty(i, b, s, w) ==
    LET occupied == Occupied(b, i, w)
        s2 == IF occupied = 0 \/ occupied = w THEN s + 100 ELSE s
        b2 == IF occupied = 0 \/ occupied = w
              THEN IF i = 0
                   THEN [b EXCEPT ![i] = EmptyRow(w)]
                   ELSE [b EXCEPT ![i] = b[i - 1], ![i - 1] = EmptyRow(w)]
              ELSE b
    IN  [board |-> b2, score |-> s2]

\* one iteration of the outer loop: row i of board b, score s
ClearRow(i, b, s, w) ==
    LET occupied == Occupied(b, i, w)
        s2 == IF occupied = w THEN s + 100 ELSE s
        b2 == IF occupied = 0 \/ occupied = w
              THEN IF i = 0
                   THEN [b EXCEPT ![i] = EmptyRow(w)]
                   ELSE [b EXCEPT ![i] = b[i - 1], ![i - 1] = EmptyRow(w)]
              ELSE b
    IN  [board |-> b2, score |-> s2]

\* the rows walked from the top: the iterations for rows i, i+1, .. h-1
RECURSIVE ClearUpTo(_, _, _, _)
ClearUpTo(i, g, w, h) ==
    IF i >= h
    THEN g
    ELSE CHOOSE res \in {ClearUpTo(i + 1, r, w, h) :
                            r \in {ClearRow(i, g.board, g.score, w)}} : TRUE

\* a pass with the .rev() missing
clear_completed_lines_TopDown(b, s, w, h) ==
    ClearUpTo(0, [board |-> b, score |-> s], w, h)

\* the outer loop, for i in (0..height).rev(): the iterations for rows i, i-1,
\* .. 0, started with board g.board and score g.score. r is the result of the
\* iteration for row i (bound through a singleton set so that each iteration
\* is evaluated before the next one starts).
RECURSIVE ClearFrom(_, _, _)
ClearFrom(i, g, w) ==
    IF i < 0
    THEN g
    ELSE CHOOSE res \in {ClearFrom(i - 1, r, w) :
                            r \in {ClearRow(i, g.board, g.score, w)}} : TRUE

clear_completed_lines(b, s, w, h) ==
    ClearFrom(h - 1, [board |-> b, score |-> s], w)

----------------------------------------------------------------------------
(* Game::update_game_state *)

\* a re-check that assigns the state both ways
update_game_state_Resets(b, w, st) ==
    IF \/ b[0][(w \div 2) - 1] # EMPTY_CELL
       \/ b[1][(w \div 2) - 1] # EMPTY_CELL
    THEN "LOSE"
    ELSE "PLAY"
\* a re-check that looks at row 0 only
update_game_state_Row0Only(b, w, st) ==
    IF b[0][(w \div 2) - 1] # EMPTY_CELL
    THEN "LOSE"
    ELSE st

\* a re-check one column to the right of the spawn column
update_game_state_NextColumn(b, w, st) ==
    IF \/ b[0][w \div 2] # EMPTY_CELL
       \/ b[1][w \div 2] # EMPTY_CELL
    THEN "LOSE"
    ELSE st

update_game_state(b, w, st) ==
    IF \/ b[0][(w \div 2) - 1] # EMPTY_CELL
       \/ b[1][(w \div 2) - 1] # EMPTY_CELL
    THEN "LOSE"
    ELSE st

----------------------------------------------------------------------------
(* Indexing: self.board[y as usize][x as usize] panics when the index is   *)
(* not inside the Vec, and a negative i16 cast to usize is never inside.   *)

InRange(px, py, w, h) == 0 <= px /\ px < w /\ 0 <= py /\ py < h

\* done_falling indexes board[y + 1][x] outside the board: the loop reaches
\* block i, no earlier block has returned true, and block i is above the
\* last row
DoneFallingOutOfRange(f, w, h, b) ==
    IF f = None
    THEN FALSE
    ELSE \E i \in 0..3 :
            /\ f[1].blocks[i].y < h - 1
            /\ ~InRange(f[1].blocks[i].x, f[1].blocks[i].y + 1, w, h)
            /\ \A k \in 0..3 :
                  IF k >= i
                  THEN TRUE
                  ELSE IF f[1].blocks[k].y >= h - 1
                       THEN FALSE
                       ELSE IF ~InRange(f[1].blocks[k].x, f[1].blocks[k].y + 1, w, h)
                            THEN FALSE
                            ELSE b[f[1].blocks[k].y + 1][f[1].blocks[k].x] = EMPTY_CELL

\* insert_falling indexes board[y][x] outside the board
InsertFallingOutOfRange(f, w, h) ==
    IF f = None
    THEN FALSE
    ELSE \E i \in 0..3 : ~InRange(f[1].blocks[i].x, f[1].blocks[i].y, w, h)

\* the board when insert_falling panics: the blocks before the first one
\* outside the board have been written
insert_falling_partial(f, w, h, b) ==
    LET t == f[1]
        format == LockedCell(t.color)
    IN  [i \in DOMAIN b |->
           [j \in DOMAIN b[i] |->
              IF \E k \in 0..3 :
                    /\ t.blocks[k].x = j /\ t.blocks[k].y = i
                    /\ \A m \in 0..k : InRange(t.blocks[m].x, t.blocks[m].y, w, h)
              THEN format
              ELSE b[i][j]]]

\* the landing check of the loop body panics
LandingIndexOutOfRange(f, w, h, b) ==
    IF DoneFallingOutOfRange(f, w, h, b)
    THEN TRUE
    ELSE IF done_falling(f, h, b) THEN InsertFallingOutOfRange(f, w, h) ELSE FALSE

\* update_game_state panics: (width / 2) - 1 underflows usize (a panic in a
\* debug build, an index of 2^64 - 1 and so a panic in a release build), or
\* row 0 or row 1 does not exist
UpdateIndexOutOfRange(b, w, h) ==
    IF (w \div 2) = 0 \/ h = 0
    THEN TRUE
    ELSE IF b[0][(w \div 2) - 1] # EMPTY_CELL THEN FALSE ELSE h < 2

\* centring without the - 1
SpawnOffset_Half(w) == Point(w \div 2, 0)

\* Point { x: ((self.width / 2) as i16) - 1, y: 0 }
SpawnOffset(w) == Point((w \div 2) - 1, 0)

----------------------------------------------------------------------------
(* Game::run: one action per stage of the loop body *)

Keys == {"q", "a", "Left", "s", "Down", "d", "Right", "w", "Up", "x"}

\* a soft drop that pays only for an accepted move
SoftDropScore_IfAccepted(s, accepted) == IF accepted THEN s + 1 ELSE s

\* the soft-drop arm: the result of down is dropped, then self.score += 1
SoftDropScore(s, accepted) == s + 1

\* board and score on entry to a step
Snapshot == [board |-> board, score |-> score]

Init ==
    /\ \E sz \in Sizes :
          /\ width = sz[1]
          /\ height = sz[2]
          /\ board = EmptyBoard(sz[1], sz[2])
          /\ prev = [board |-> EmptyBoard(sz[1], sz[2]), score |-> 0]
    /\ score = 0
    /\ falling = None
    /\ state = "PLAY"
    /\ pc = "loop"
    /\ key = NoKey
    /\ call = NoCall
    /\ spawned = 0
    /\ start = None
    /\ n = 0
    /\ pending = <<>>

\* if matches!(self.state, GameState::LOSE) { ...; break; }
GameOverExit ==
    /\ pc = "loop"
    /\ state = "LOSE"
    /\ pc' = "exit"
    /\ prev' = Snapshot
    /\ UNCHANGED <<board, score, width, height, falling, state, key, call, spawned,
                   start, n, pending>>

\* the gravity block: due stands for old_time.elapsed().as_millis() >= FALL_RATE_MS
GravityStep(due) ==
    /\ pc = "loop"
    /\ state = "PLAY"
    /\ falling # None
    /\ IF due
       THEN LET r == down(falling[1], width, height, board)
            IN  /\ falling' = Some(r.t)
                /\ call' = [fn |-> "translate", offset |-> Point(0, 1),
                            before |-> falling, ret |-> r.ret]
       ELSE /\ falling' = falling
            /\ call' = NoCall
    /\ pc' = "input"
    /\ prev' = Snapshot
    /\ UNCHANGED <<board, score, width, height, state, key, spawned, start, n>>

\* whether the fall is due in an iteration depends on the wall clock only
Gravity ==
    /\ \E due \in BOOLEAN : GravityStep(due)
    /\ UNCHANGED pending

\* match self.stdin.next(): k is the key read, NoKey when nothing is pending
InputKey(k) ==
    /\ pc = "input"
    /\ key' = k
    /\ CASE k = "q" ->
              /\ pc' = "exit"
              /\ call' = NoCall
              /\ UNCHANGED <<falling, score>>
         [] k \in {"a", "Left"} ->
              LET r == left(falling[1], width, height, board)
              IN  /\ falling' = Some(r.t)
                  /\ call' = [fn |-> "translate", offset |-> Point(-1, 0),
                              before |-> falling, ret |-> r.ret]
                  /\ pc' = "check"
                  /\ UNCHANGED score
         [] k \in {"s", "Down"} ->
              LET r == down(falling[1], width, height, board)
              IN  /\ falling' = Some(r.t)
                  /\ call' = [fn |-> "translate", offset |-> Point(0, 1),
                              before |-> falling, ret |-> r.ret]
                  /\ score' = SoftDropScore(score, r.ret)
                  /\ pc' = "check"
         [] k \in {"d", "Right"} ->
              LET r == right(falling[1], width, height, board)
              IN  /\ falling' = Some(r.t)
                  /\ call' = [fn |-> "translate", offset |-> Point(1, 0),
                              before |-> falling, ret |-> r.ret]
                  /\ pc' = "check"
                  /\ UNCHANGED score
         [] k \in {"w", "Up"} ->
              /\ falling' = Some(rotate_counter_clockwise(falling[1], width, height, board))
              /\ call' = [fn |-> "rotate_counter_clockwise", offset |-> Point(0, 0),
                          before |-> falling, ret |-> FALSE]
              /\ pc' = "check"
              /\ UNCHANGED score
         [] OTHER ->
              /\ pc' = "check"
              /\ call' = NoCall
              /\ UNCHANGED <<falling, score>>
    /\ prev' = Snapshot
    /\ UNCHANGED <<board, width, height, state, spawned, start>>

\* the keys that arrive are not modelled here: any key, or none, may be read
Input ==
    /\ \E k \in Keys \cup {NoKey} : InputKey(k)
    /\ UNCHANGED <<pending, n>>

\* the else branch: no falling piece, so the shape drawn (r) is centred
SpawnPiece(r) ==
    /\ pc = "loop"
    /\ state = "PLAY"
    /\ falling = None
    /\ LET t == Tetromino_random(r)
           offset == SpawnOffset(width)
           res == translate(t, offset, width, height, board)
       IN  /\ state' = IF res.ret THEN state ELSE "LOSE"
           /\ falling' = Some(res.t)
           /\ call' = [fn |-> "translate", offset |-> offset,
                       before |-> Some(t), ret |-> res.ret]
    /\ spawned' = spawned + 1
    /\ pc' = "check"
    /\ prev' = Snapshot
    /\ UNCHANGED <<board, score, width, height, key, start, n>>

\* a spawn branch that polls the keyboard as well and drops the key
Spawn_Polls ==
    /\ spawned < MaxPieces
    /\ \E r \in 0..6 : SpawnPiece(r)
    /\ pending' = IF pending = <<>> THEN pending ELSE Tail(pending)

Spawn ==
    /\ spawned < MaxPieces
    /\ \E r \in 0..6 : SpawnPiece(r)
    /\ UNCHANGED pending

\* if self.done_falling() { self.insert_falling(); }
LandingCheck ==
    /\ pc = "check"
    /\ ~LandingIndexOutOfRange(falling, width, height, board)
    /\ IF done_falling(falling, height, board)
       THEN /\ board' = insert_falling(falling, board)
            /\ falling' = None
       ELSE UNCHANGED <<board, falling>>
    /\ call' = [fn |-> "done_falling", offset |-> Point(0, 0),
                before |-> falling, ret |-> done_falling(falling, height, board)]
    /\ pc' = "clear"
    /\ key' = NoKey
    /\ prev' = Snapshot
    /\ UNCHANGED <<score, width, height, state, spawned, start, n, pending>>

\* self.clear_completed_lines();
ClearLines ==
    /\ pc = "clear"
    /\ LET r == clear_completed_lines(board, score, width, height)
       IN  /\ board' = r.board
           /\ score' = r.score
    /\ call' = NoCall
    /\ pc' = "update"
    /\ prev' = Snapshot
    /\ UNCHANGED <<width, height, falling, state, key, spawned, start, n, pending>>

\* self.update_game_state(); and back to the top of the loop
UpdateGameState ==
    /\ pc = "update"
    /\ ~UpdateIndexOutOfRange(board, width, height)
    /\ state' = update_game_state(board, width, state)
    /\ pc' = "loop"
    /\ prev' = Snapshot
    /\ UNCHANGED <<board, score, width, height, falling, key, call, spawned,
                   start, n, pending>>

Next ==
    \/ GameOverExit
    \/ Gravity
    \/ Input
    \/ Spawn
    \/ LandingCheck
    \/ ClearLines
    \/ UpdateGameState

Spec == Init /\ [][Next]_vars

----------------------------------------------------------------------------
(* The loop on boards smaller than a tetromino needs.  Game::new takes any *)
(* width and height; an index outside a Vec panics and the thread is gone. *)

SmallSizes == {<<1, 5>>, <<2, 4>>, <<4, 3>>, <<3, 4>>}

InitSmall ==
    /\ \E sz \in SmallSizes :
          /\ width = sz[1]
          /\ height = sz[2]
          /\ board = EmptyBoard(sz[1], sz[2])
          /\ prev = [board |-> EmptyBoard(sz[1], sz[2]), score |-> 0]
    /\ score = 0
    /\ falling = None
    /\ state = "PLAY"
    /\ pc = "loop"
    /\ key = NoKey
    /\ call = NoCall
    /\ spawned = 0
    /\ start = None
    /\ n = 0
    /\ pending = <<>>

\* the landing check panics: in done_falling, or in insert_falling after the
\* blocks before the offending one have been written
LandingPanic ==
    /\ pc = "check"
    /\ LandingIndexOutOfRange(falling, width, height, board)
    /\ board' = IF DoneFallingOutOfRange(falling, width, height, board)
                THEN board
                ELSE insert_falling_partial(falling, width, height, board)
    /\ pc' = "panic"
    /\ prev' = Snapshot
    /\ UNCHANGED <<score, width, height, falling, state, key, call, spawned,
                   start, n, pending>>

\* update_game_state panics
UpdatePanic ==
    /\ pc = "update"
    /\ UpdateIndexOutOfRange(board, width, height)
    /\ pc' = "panic"
    /\ prev' = Snapshot
    /\ UNCHANGED <<board, score, width, height, falling, state, key, call, spawned,
                   start, n, pending>>

NextSmall ==
    \/ Next
    \/ LandingPanic
    \/ UpdatePanic

SpecSmall == InitSmall /\ [][NextSmall]_vars

----------------------------------------------------------------------------
(* The loop with the keyboard modelled: keys are typed at any moment, wait *)
(* in the reader in the order typed, and stdin.next() takes the oldest.    *)

MaxPending == 2
TypedKeys == {"q", "a", "s"}

\* a key arrives while the loop is running
Type ==
    /\ pc \notin {"exit", "panic"}
    /\ Len(pending) < MaxPending
    /\ \E k \in TypedKeys : pending' = Append(pending, k)
    /\ UNCHANGED <<board, score, width, height, falling, state, pc, key, call, spawned,
                   prev, start, n>>

\* match self.stdin.next(): the oldest pending key, or None
InputQueued ==
    /\ pc = "input"
    /\ IF pending = <<>>
       THEN /\ InputKey(NoKey)
            /\ UNCHANGED pending
       ELSE /\ InputKey(Head(pending))
            /\ pending' = Tail(pending)
    /\ UNCHANGED n

NextInput ==
    \/ GameOverExit
    \/ Gravity
    \/ InputQueued
    \/ Spawn
    \/ LandingCheck
    \/ ClearLines
    \/ UpdateGameState
    \/ Type

SpecInput == Init /\ [][NextInput]_vars

----------------------------------------------------------------------------
(* The loop replayed from Game::new(5, 9) with a fixed opening: the shapes *)
(* drawn and, for each iteration with an active piece, whether the fall is *)
(* due and the key read.  The opening builds four columns of I pieces, a   *)
(* J and a Z on top of them, and drops an I into the open column, which    *)
(* completes four rows at once.  After the opening the draws, the clock    *)
(* and the keys are free again for FreePieces more pieces.  Iterations in  *)
(* which the fall is not due and no key is read leave every field as it    *)
(* is, so the opening lists only the iterations that move a piece.         *)

ReplaySize == <<5, 9>>
FreePieces == 1

Tick(due, k) == [due |-> due, key |-> k]

\* gen_range values of the opening: I, I, I, I, J, Z, I
ReplayDraws == <<0, 0, 0, 0, 3, 6, 0>>

ReplayTicks ==
    <<Tick(TRUE, "d"), Tick(TRUE, "d"), Tick(TRUE, "d"), Tick(TRUE, NoKey), Tick(TRUE, NoKey),
      Tick(TRUE, "d"), Tick(TRUE, "d"), Tick(TRUE, NoKey), Tick(TRUE, NoKey), Tick(TRUE, NoKey),
      Tick(TRUE, "d"), Tick(TRUE, NoKey), Tick(TRUE, NoKey), Tick(TRUE, NoKey), Tick(TRUE, NoKey),
      Tick(TRUE, "a"), Tick(TRUE, NoKey), Tick(TRUE, NoKey), Tick(TRUE, NoKey), Tick(TRUE, NoKey),
      Tick(TRUE, "d"), Tick(TRUE, NoKey), Tick(TRUE, NoKey),
      Tick(FALSE, "d"), Tick(FALSE, "d"),
      Tick(FALSE, "s"), Tick(FALSE, "s"), Tick(FALSE, "s"), Tick(FALSE, "s"),
      Tick(FALSE, "s")>>

InitReplay ==
    /\ width = ReplaySize[1]
    /\ height = ReplaySize[2]
    /\ board = EmptyBoard(ReplaySize[1], ReplaySize[2])
    /\ prev = [board |-> EmptyBoard(ReplaySize[1], ReplaySize[2]), score |-> 0]
    /\ score = 0
    /\ falling = None
    /\ state = "PLAY"
    /\ pc = "loop"
    /\ key = NoKey
    /\ call = NoCall
    /\ spawned = 0
    /\ start = None
    /\ n = 0
    /\ pending = <<>>

\* n counts the polls made during the opening
GravityReplay ==
    /\ IF n < Len(ReplayTicks)
       THEN GravityStep(ReplayTicks[n + 1].due)
       ELSE \E due \in BOOLEAN : GravityStep(due)
    /\ UNCHANGED pending

InputReplay ==
    /\ IF n < Len(ReplayTicks)
       THEN /\ InputKey(ReplayTicks[n + 1].key)
            /\ n' = n + 1
       ELSE /\ \E k \in Keys \cup {NoKey} : InputKey(k)
            /\ UNCHANGED n
    /\ UNCHANGED pending

SpawnReplay ==
    /\ spawned < Len(ReplayDraws) + FreePieces
    /\ IF spawned < Len(ReplayDraws)
       THEN SpawnPiece(ReplayDraws[spawned + 1])
       ELSE \E r \in 0..6 : SpawnPiece(r)
    /\ UNCHANGED pending

NextReplay ==
    \/ GameOverExit
    \/ GravityReplay
    \/ InputReplay
    \/ SpawnReplay
    \/ LandingCheck
    \/ ClearLines
    \/ UpdateGameState

SpecReplay == InitReplay /\ [][NextReplay]_vars

----------------------------------------------------------------------------
(* The replayed game under the scheduling of the program, with a player    *)
(* who never quits.  Every stage of an iteration returns, and the iteration ends in thread::sleep of one    *)
(* frame, so the loop keeps taking steps; old_time.elapsed() grows with    *)
(* every sleep and is reset by the gravity block only, so while a piece    *)
(* stays active an iteration in which the fall is due comes again and      *)
(* again.                                                                  *)

\* the keys of the four moves, one per match arm: the player never quits
LiveKeys == {"a", "s", "d", "w"}

\* after the opening: an iteration in which
\* old_time.elapsed().as_millis() >= FALL_RATE_MS
GravityDue ==
    /\ n >= Len(ReplayTicks)
    /\ GravityStep(TRUE)
    /\ UNCHANGED pending

\* stdin.next() after the opening returns one of the move keys, or nothing
InputLive ==
    /\ IF n < Len(ReplayTicks)
       THEN /\ InputKey(ReplayTicks[n + 1].key)
            /\ n' = n + 1
       ELSE /\ \E k \in LiveKeys \cup {NoKey} : InputKey(k)
            /\ UNCHANGED n
    /\ UNCHANGED pending

NextLive ==
    \/ GameOverExit
    \/ GravityReplay
    \/ InputLive
    \/ SpawnReplay
    \/ LandingCheck
    \/ ClearLines
    \/ UpdateGameState

Fairness ==
    /\ WF_vars(NextLive)
    /\ SF_vars(GravityDue)

SpecLive == InitReplay /\ [][NextLive]_vars /\ Fairness

----------------------------------------------------------------------------
(* A driver for rotate_counter_clockwise: any of the seven tetrominoes,    *)
(* placed anywhere translate accepts on a board that is empty or has one   *)
(* locked cell, is rotated four times in a row.                            *)

InitRotate ==
    /\ \E sz \in RotateSizes :
          /\ width = sz[1]
          /\ height = sz[2]
          /\ \/ board = EmptyBoard(sz[1], sz[2])
             \/ \E i \in 0..(sz[2] - 1) : \E j \in 0..(sz[1] - 1) :
                   board = [EmptyBoard(sz[1], sz[2]) EXCEPT ![i][j] = LockedCell("Red")]
          /\ \E r \in 0..6 : \E dx \in 0..(sz[1] - 1) : \E dy \in 0..(sz[2] - 1) :
                LET res == translate(Tetromino_random(r), Point(dx, dy), sz[1], sz[2], board)
                IN  /\ res.ret
                    /\ falling = Some(res.t)
                    /\ start = [blocks |-> res.t.blocks, accepted |-> 0]
    /\ score = 0
    /\ prev = [board |-> board, score |-> 0]
    /\ state = "PLAY"
    /\ pc = "rotate"
    /\ key = NoKey
    /\ call = NoCall
    /\ spawned = 1
    /\ n = 0
    /\ pending = <<>>

RotateAgain ==
    /\ pc = "rotate"
    /\ n < 4
    /\ falling' = Some(rotate_counter_clockwise(falling[1], width, height, board))
    /\ start' = [start EXCEPT !.accepted =
                    IF RotateRejected(falling[1], width, height, board) THEN @ ELSE @ + 1]
    /\ call' = [fn |-> "rotate_counter_clockwise", offset |-> Point(0, 0),
                before |-> falling, ret |-> FALSE]
    /\ n' = n + 1
    /\ prev' = Snapshot
    /\ UNCHANGED <<board, score, width, height, state, pc, key, spawned, pending>>

SpecRotate == InitRotate /\ [][RotateAgain]_vars

----------------------------------------------------------------------------
(* A driver for the scenario on the default board: an I tetromino is       *)
(* centred at row 0, down is called 20 times, the piece is locked, the     *)
(* other cells of the bottom row are filled one by one in any order, and   *)
(* one clearing pass is run.                                               *)

InitScenario ==
    /\ width = BOARD_WIDTH
    /\ height = BOARD_HEIGHT
    /\ board = EmptyBoard(BOARD_WIDTH, BOARD_HEIGHT)
    /\ prev = [board |-> EmptyBoard(BOARD_WIDTH, BOARD_HEIGHT), score |-> 0]
    /\ score = 0
    /\ falling = None
    /\ state = "PLAY"
    /\ pc = "spawn"
    /\ key = NoKey
    /\ call = NoCall
    /\ spawned = 0
    /\ start = None
    /\ n = 0
    /\ pending = <<>>

ScenarioSpawn ==
    /\ pc = "spawn"
    /\ LET offset == SpawnOffset(width)
           res == translate(Tetromino_i, offset, width, height, board)
       IN  /\ falling' = Some(res.t)
           /\ state' = IF res.ret THEN state ELSE "LOSE"
           /\ call' = [fn |-> "translate", offset |-> offset,
                       before |-> Some(Tetromino_i), ret |-> res.ret]
    /\ spawned' = spawned + 1
    /\ pc' = "down"
    /\ prev' = Snapshot
    /\ UNCHANGED <<board, score, width, height, key, start, n, pending>>

ScenarioDown ==
    /\ pc = "down"
    /\ n < height
    /\ LET r == down(falling[1], width, height, board)
       IN  /\ falling' = Some(r.t)
           /\ call' = [fn |-> "translate", offset |-> Point(0, 1),
                       before |-> falling, ret |-> r.ret]
    /\ n' = n + 1
    /\ prev' = Snapshot
    /\ UNCHANGED <<board, score, width, height, state, pc, key, spawned, start, pending>>

ScenarioLock ==
    /\ pc = "down"
    /\ n = height
    /\ IF done_falling(falling, height, board)
       THEN /\ board' = insert_falling(falling, board)
            /\ falling' = None
       ELSE UNCHANGED <<board, falling>>
    /\ call' = [fn |-> "done_falling", offset |-> Point(0, 0),
                before |-> falling, ret |-> done_falling(falling, height, board)]
    /\ pc' = "fill"
    /\ prev' = Snapshot
    /\ UNCHANGED <<score, width, height, state, key, spawned, start, n, pending>>

\* direct construction: one more cell of the bottom row
ScenarioFill ==
    /\ pc = "fill"
    /\ \E j \in 0..(width - 1) :
          /\ board[height - 1][j] = EMPTY_CELL
          /\ board' = [board EXCEPT ![height - 1][j] = LockedCell("Fill")]
    /\ prev' = Snapshot
    /\ UNCHANGED <<score, width, height, falling, state, pc, key, call, spawned, start, n, pending>>

ScenarioClear ==
    /\ pc = "fill"
    /\ \A j \in 0..(width - 1) : board[height - 1][j] # EMPTY_CELL
    /\ LET r == clear_completed_lines(board, score, width, height)
       IN  /\ board' = r.board
           /\ score' = r.score
    /\ call' = NoCall
    /\ pc' = "done"
    /\ prev' = Snapshot
    /\ UNCHANGED <<width, height, falling, state, key, spawned, start, n, pending>>

NextScenario ==
    \/ ScenarioSpawn
    \/ ScenarioDown
    \/ ScenarioLock
    \/ ScenarioFill
    \/ ScenarioClear

SpecScenario == InitScenario /\ [][NextScenario]_vars

----------------------------------------------------------------------------
(* Properties of translate and rotate_counter_clockwise, read off the      *)
(* record of the call the last step made. The steps that call them leave   *)
(* the board alone, so board is the board the call was given.              *)

\* (x, y) is inside the board and its cell is Empty
CellFree(px, py) ==
    /\ 0 <= px /\ px < width
    /\ 0 <= py /\ py < height
    /\ board[py][px] = EMPTY_CELL

Called(f) == pc \in {"input", "check"} /\ call.fn = f

\* the blocks handed to the call, and the blocks stored after it
BlocksBefore == call.before[1].blocks
BlocksAfter == falling[1].blocks

\* the candidate of block i: current + offset for translate, the turn about
\* the second block for rotate_counter_clockwise
TranslateCandidate(i) ==
    Point(BlocksBefore[i].x + call.offset.x, BlocksBefore[i].y + call.offset.y)
RotateCandidate(i) ==
    Point(BlocksBefore[1].x - (BlocksBefore[i].y - BlocksBefore[1].y),
          BlocksBefore[1].y + (BlocksBefore[i].x - BlocksBefore[1].x))
Candidate(i) ==
    IF call.fn = "translate" THEN TranslateCandidate(i) ELSE RotateCandidate(i)

\* C1: translate and rotate_counter_clockwise are all-or-nothing: when one of
\* the four candidates is out of bounds or Occupied, the four stored blocks
\* are unchanged (and translate returned false); the stored blocks are never
\* a mix of moved and unmoved ones.
C1_AllOrNothing ==
    (Called("translate") \/ Called("rotate_counter_clockwise")) =>
        /\ (\E i \in 0..3 : ~CellFree(Candidate(i).x, Candidate(i).y)) =>
              /\ BlocksAfter = BlocksBefore
              /\ call.fn = "translate" => call.ret = FALSE
        /\ \/ \A i \in 0..3 : BlocksAfter[i] = BlocksBefore[i]
           \/ \A i \in 0..3 : BlocksAfter[i] = Candidate(i)

\* a rejected translate in which some candidates were free and another was not
C1_Witness ==
    /\ Called("translate")
    /\ \E i \in 0..3 : ~CellFree(Candidate(i).x, Candidate(i).y)
    /\ \E i \in 0..3 : CellFree(Candidate(i).x, Candidate(i).y)
                        /\ Candidate(i) # BlocksBefore[i]
    /\ BlocksAfter = BlocksBefore

\* C2: translate returns true exactly when all four candidates current +
\* (dx, dy) are in bounds and Empty; when it does, every block has moved by
\* exactly (dx, dy) and so is in bounds and on a cell that was Empty.
C2_TranslateAccepts ==
    Called("translate") =>
        /\ call.ret = (\A i \in 0..3 : CellFree(TranslateCandidate(i).x, TranslateCandidate(i).y))
        /\ call.ret =>
              \A i \in 0..3 :
                 /\ BlocksAfter[i].x = BlocksBefore[i].x + call.offset.x
                 /\ BlocksAfter[i].y = BlocksBefore[i].y + call.offset.y
                 /\ CellFree(BlocksAfter[i].x, BlocksAfter[i].y)

\* an accepted sideways move next to locked cells
C2_Witness ==
    /\ Called("translate")
    /\ call.ret
    /\ call.offset = Point(-1, 0)
    /\ BlocksAfter # BlocksBefore
    /\ \E i \in 0..(height - 1) : \E j \in 0..(width - 1) : board[i][j] # EMPTY_CELL

\* C3: rotate_counter_clockwise turns about the second block (cx, cy): when
\* the four targets (cx - (y - cy), cy + (x - cx)) are in bounds and Empty
\* every block is moved to its target and the second block stays; otherwise
\* the piece is left where it was, no other position being tried.
C3_RotateAboutSecondBlock ==
    Called("rotate_counter_clockwise") =>
        IF \A i \in 0..3 : CellFree(RotateCandidate(i).x, RotateCandidate(i).y)
        THEN /\ \A i \in 0..3 : BlocksAfter[i] = RotateCandidate(i)
             /\ BlocksAfter[1] = BlocksBefore[1]
        ELSE BlocksAfter = BlocksBefore

\* an accepted rotation that moved the piece
C3_Witness ==
    /\ Called("rotate_counter_clockwise")
    /\ \A i \in 0..3 : CellFree(RotateCandidate(i).x, RotateCandidate(i).y)
    /\ BlocksAfter # BlocksBefore
    /\ BlocksAfter[1] = BlocksBefore[1]

----------------------------------------------------------------------------
(* Four rotations in a row (SpecRotate) *)

\* C4: for each of the seven tetrominoes, four rotate_counter_clockwise calls
\* in a row that are all accepted, on a board that does not change, bring
\* every block back to the position it started from.
C4_FourRotationsReturn ==
    (pc = "rotate" /\ n = 4 /\ start.accepted = 4) =>
        \A i \in 0..3 : falling[1].blocks[i] = start.blocks[i]

\* an L tetromino after four accepted rotations next to a locked cell
C4_Witness ==
    /\ pc = "rotate"
    /\ n = 4
    /\ start.accepted = 4
    /\ falling[1].color = "Orange"
    /\ \E i \in 0..(height - 1) : \E j \in 0..(width - 1) : board[i][j] # EMPTY_CELL

----------------------------------------------------------------------------
(* The falling piece and the locked cells (Spec) *)

\* C5: whenever there is an active piece, its four blocks are inside the
\* board and on cells that are Empty on the board.
C5_ActivePieceOnEmptyCells ==
    falling # None =>
        \A i \in 0..3 : CellFree(falling[1].blocks[i].x, falling[1].blocks[i].y)

\* the piece the landing check looked at, and the board it was given
PieceChecked == call.before[1]
BoardChecked == prev.board

\* block i of the checked piece is on the bottom row or has an Occupied cell
\* directly below it
RestsOnSomething(i) ==
    LET p == PieceChecked.blocks[i]
    IN  IF p.y = height - 1
        THEN TRUE
        ELSE /\ p.y + 1 < height
             /\ BoardChecked[p.y + 1][p.x] # EMPTY_CELL

\* block i of the checked piece has an Empty cell of the board below it
ClearBelow(i) ==
    LET p == PieceChecked.blocks[i]
    IN  /\ p.y + 1 < height
        /\ BoardChecked[p.y + 1][p.x] = EMPTY_CELL

IsBlockOfChecked(i, j) ==
    \E k \in 0..3 : PieceChecked.blocks[k].x = j /\ PieceChecked.blocks[k].y = i

\* C6: the landing check locks the active piece exactly when one of its
\* blocks is at y = H-1 or has an Occupied cell directly below; locking writes
\* the piece's tag into its four cells, changes no other cell and leaves no
\* active piece; a piece with an Empty in-bounds cell below every block stays
\* active and the board stays as it was.
C6_LandingCheckLocks ==
    (pc = "clear" /\ call.fn = "done_falling" /\ call.before # None) =>
        /\ (falling = None) <=> (\E i \in 0..3 : RestsOnSomething(i))
        /\ (\E i \in 0..3 : RestsOnSomething(i)) =>
              \A i \in 0..(height - 1) : \A j \in 0..(width - 1) :
                 board[i][j] = IF IsBlockOfChecked(i, j)
                               THEN LockedCell(PieceChecked.color)
                               ELSE BoardChecked[i][j]
        /\ (\A i \in 0..3 : ClearBelow(i)) =>
              /\ falling = call.before
              /\ board = BoardChecked

\* a piece locked on top of locked cells, none of its blocks on the bottom row
C6_Witness ==
    /\ pc = "clear"
    /\ call.fn = "done_falling"
    /\ call.before # None
    /\ falling = None
    /\ \A i \in 0..3 : PieceChecked.blocks[i].y < height - 1
    /\ \E i \in 0..3 : RestsOnSomething(i)
    /\ \A i \in 0..3 : board[PieceChecked.blocks[i].y][PieceChecked.blocks[i].x]
                          = LockedCell(PieceChecked.color)

----------------------------------------------------------------------------
(* The clearing pass (Spec, SpecScenario) *)

RowFull(b, k) == \A j \in 0..(width - 1) : b[k][j] # EMPTY_CELL
RowBlank(b, k) == \A j \in 0..(width - 1) : b[k][j] = EMPTY_CELL
OnlyFullRow(b, k) ==
    /\ RowFull(b, k)
    /\ \A m \in 0..(height - 1) : m # k => ~RowFull(b, m)

\* C7: when exactly one row k is fully occupied as the clearing pass starts,
\* the pass adds exactly 100 to the score, every row j with 0 < j <= k gets
\* the former contents of row j-1, row 0 becomes all Empty and the rows below
\* k are unchanged.
C7_SingleRowClear ==
    pc = "update" =>
        \A k \in 0..(height - 1) :
           OnlyFullRow(prev.board, k) =>
              /\ score = prev.score + 100
              /\ \A j \in 1..k : board[j] = prev.board[j - 1]
              /\ RowBlank(board, 0)
              /\ \A j \in (k + 1)..(height - 1) : board[j] = prev.board[j]

\* the only full row had cells above it and a partly filled row below it
C7_Witness ==
    /\ pc = "update"
    /\ \E k \in 1..(height - 2) :
          /\ OnlyFullRow(prev.board, k)
          /\ ~RowBlank(prev.board, k - 1)
          /\ ~RowBlank(prev.board, k + 1)
          /\ board[k] = prev.board[k - 1]
          /\ score = prev.score + 100

\* the part of the scenario before the clearing pass: after 19 calls of down
\* the bottom block of the I tetromino is on row 19, and the 20th call is
\* rejected and leaves the piece as it was
ScenarioDrop ==
    /\ (pc = "down" /\ n >= 19) =>
          /\ \E i \in 0..3 : falling[1].blocks[i].y = 19
          /\ \A i \in 0..3 : falling[1].blocks[i].y <= 19 /\ falling[1].blocks[i].x = 4
    /\ (pc = "down" /\ n = 20) =>
          /\ call.fn = "translate"
          /\ call.ret = FALSE
          /\ falling = call.before

\* C8 as stated: ... and after the lock, the fill of the other 9 cells of row
\* 19 and one clearing pass, row 19 is entirely Empty and the score is 100
\* higher.
C8_ScenarioAsStated ==
    /\ ScenarioDrop
    /\ pc = "done" =>
          /\ RowBlank(board, 19)
          /\ score = prev.score + 100

\* C8 (amended): on the 10x20 board an I tetromino centred at row 0 and given
\* down 19 times has its bottom block on row 19, and a 20th down is rejected
\* and leaves it unchanged; after the lock, the fill of the other 9 cells of
\* row 19 and one clearing pass, the score is 100 higher, every row j >= 1
\* holds what row j-1 held, so that row 19 holds the piece's block from row 18
\* in column 4 and is Empty elsewhere, and the piece's three remaining blocks
\* are on rows 17..19.
C8_Scenario ==
    /\ ScenarioDrop
    /\ pc = "done" =>
          /\ score = prev.score + 100
          /\ RowFull(prev.board, 19)
          /\ \A j \in 1..19 : board[j] = prev.board[j - 1]
          /\ RowBlank(board, 0)
          /\ \A i \in 0..19 : \A j \in 0..9 :
                (board[i][j] # EMPTY_CELL) <=> (j = 4 /\ i \in 17..19)
          /\ board[19][4] = LockedCell("Cyan")

\* the scenario has run to its end
C8_Witness ==
    /\ pc = "done"
    /\ n = 20
    /\ width = 10
    /\ height = 20
    /\ score = 100
    /\ falling = None

----------------------------------------------------------------------------
(* The score (Spec) *)

\* C9: a soft-drop command adds exactly 1 to the score whether its down was
\* accepted or rejected; left, right, rotate, unknown and absent inputs add
\* nothing.
C9_SoftDropScore ==
    pc = "check" =>
        /\ key \in {"s", "Down"} => score = prev.score + 1
        /\ key \in {"a", "Left", "d", "Right", "w", "Up", "x", NoKey} => score = prev.score

\* a soft drop whose down was rejected
C9_Witness ==
    /\ pc = "check"
    /\ key \in {"s", "Down"}
    /\ call.fn = "translate"
    /\ call.ret = FALSE
    /\ falling = call.before
    /\ score = prev.score + 1

\* C10: the score starts at 0, is never negative and never decreases; a step
\* changes it only by +1, in the dispatch of a soft-drop command, or by +100,
\* in a clearing pass that started with a fully occupied row.
C10_ScoreSteps ==
    /\ score = 0
    /\ [](score >= 0)
    /\ [][\/ score' = score
          \/ /\ score' = score + 1
             /\ pc = "input"
             /\ key' \in {"s", "Down"}
          \/ /\ score' = score + 100
             /\ pc = "clear"
             /\ \E k \in 0..(height - 1) : RowFull(board, k)]_vars

\* a score made of a line clear and soft drops
C10_Witness ==
    /\ score > 100
    /\ score % 100 # 0
    /\ pc = "update"
    /\ score = prev.score + 100

----------------------------------------------------------------------------
(* Claims about the end of the game *)

\* board[0][width / 2 - 1] or board[1][width / 2 - 1] is occupied
TopCentreOccupied(b, w) ==
    \/ b[0][(w \div 2) - 1] # EMPTY_CELL
    \/ b[1][(w \div 2) - 1] # EMPTY_CELL

\* C11: the game state starts as Playing and its only transition is
\* Playing -> GameOver: once it is GameOver it is GameOver in every later
\* state, whatever step (tick stage, input, clearing pass) is taken.
C11_OnlyPlayToGameOver ==
    /\ state = "PLAY"
    /\ [](state \in {"PLAY", "LOSE"})
    /\ [][state = "LOSE" => state' = "LOSE"]_vars

\* a rejected spawn has set GameOver, the rest of that tick has run with the
\* two top centre cells empty, and the state is still GameOver
C11_Witness ==
    /\ pc = "loop"
    /\ state = "LOSE"
    /\ ~TopCentreOccupied(board, width)

\* C12: at the end of a tick (the loop is back at its top) in which, after
\* the landing check and the clearing pass, board[0][width / 2 - 1] or
\* board[1][width / 2 - 1] is occupied, the state is GameOver; and the next
\* loop iteration, finding GameOver, only leaves the loop: it draws no
\* piece, applies no gravity, reads no key, locks nothing and clears nothing.
C12_TopCentreEndsGame ==
    /\ []((pc = "loop" /\ TopCentreOccupied(board, width)) => state = "LOSE")
    /\ [][(pc = "loop" /\ state = "LOSE") =>
             /\ pc' = "exit"
             /\ UNCHANGED <<board, score, falling, state, key, spawned, pending>>]_vars

\* the loop has been left after a tick that ended with row 1 of the centre
\* column occupied and row 0 of it empty
C12_Witness ==
    /\ pc = "exit"
    /\ state = "LOSE"
    /\ board[0][(width \div 2) - 1] = EMPTY_CELL
    /\ board[1][(width \div 2) - 1] # EMPTY_CELL
    /\ falling = None

\* the spawn branch has just run: it is the only step that calls translate
\* without a key having been read in the iteration
SpawnTick == pc = "check" /\ key = NoKey /\ call.fn = "translate"

\* C13: on a tick that starts with no active piece one of the seven shapes
\* is drawn and translated by (width / 2 - 1, 0) from its shape-local
\* offsets.  If every translated block is inside the board and on an Empty
\* cell the piece is active at exactly those positions and the spawn leaves
\* the state at Playing; otherwise the state is GameOver in that same tick.
C13_SpawnCentredOrGameOver ==
    SpawnTick =>
       /\ call.offset = Point((width \div 2) - 1, 0)
       /\ \E r \in 0..6 : call.before = Some(Tetromino_random(r))
       /\ falling # None
       /\ IF \A i \in 0..3 :
                CellFree(BlocksBefore[i].x + (width \div 2) - 1, BlocksBefore[i].y)
          THEN /\ \A i \in 0..3 :
                     BlocksAfter[i] =
                        Point(BlocksBefore[i].x + (width \div 2) - 1, BlocksBefore[i].y)
               /\ state = "PLAY"
          ELSE state = "LOSE"

\* a spawn has been rejected because a spawn cell is occupied
C13_Witness ==
    /\ SpawnTick
    /\ state = "LOSE"
    /\ \E i \in 0..3 :
          board[BlocksBefore[i].y][BlocksBefore[i].x + (width \div 2) - 1] # EMPTY_CELL

\* C14: from the moment the state is GameOver nothing is mutated any more:
\* the board cells, the score and the active piece keep their values in
\* every later state (no lock, no row shift, no score award), whichever of
\* the two loss conditions set the state.
C14_NoMutationAfterGameOver ==
    [][state = "LOSE" => (board' = board /\ score' = score /\ falling' = falling)]_vars

\* C16 as stated: in a run where no line has been cleared (the score is
\* below 100) and the stack has reached one of the two topmost centre cells,
\* the game ends through a failed spawn: the step after the end of that tick
\* is a spawn attempt, it is rejected, and the state is GameOver after it.
C16_EndsThroughFailedSpawn ==
    [][(pc = "loop" /\ score < 100 /\ falling = None /\ TopCentreOccupied(board, width)) =>
          (spawned' = spawned + 1 /\ state' = "LOSE")]_vars

\* C16, amended: in a run where no line has been cleared (the score is below
\* 100), when the stack has reached one of the two topmost centre cells
\* after the landing check and the clearing pass of a tick, the re-check at
\* the end of that same tick leaves the state at GameOver without any spawn
\* attempt, and the next loop iteration leaves the loop without drawing a
\* piece.
C16_EndsAtLockTick ==
    /\ [][(pc = "update" /\ score < 100 /\ TopCentreOccupied(board, width)) =>
             (state' = "LOSE" /\ pc' = "loop" /\ spawned' = spawned)]_vars
    /\ [][(pc = "loop" /\ score < 100 /\ TopCentreOccupied(board, width)) =>
             (state' = "LOSE" /\ pc' = "exit" /\ spawned' = spawned)]_vars

\* the first piece, whose spawn on the empty board was accepted, has been
\* locked on a top centre cell, and the loop has been left with no second
\* piece drawn
C16_Witness ==
    /\ pc = "exit"
    /\ state = "LOSE"
    /\ spawned = 1
    /\ falling = None
    /\ score < 100
    /\ TopCentreOccupied(board, width)

----------------------------------------------------------------------------
(* Claims about the clearing pass over several ticks *)

\* C18: at the end of every tick, after the clearing pass has run, no row of
\* the board is fully occupied (a single pass removes every row that was
\* full when it started, also when one lock completed two or more rows).
C18_NoFullRowAfterPass ==
    pc \in {"update", "loop"} => \A i \in 0..(height - 1) : ~RowFull(board, i)

----------------------------------------------------------------------------
(* Claims about board sizes and input *)

\* C15: every board coordinate access is bounds-checked: for every board
\* size the constructor accepts and every reachable state, the landing
\* check (done_falling, insert_falling) and the game-over re-check about to
\* run index only cells inside the board, and no step has panicked on an
\* index outside it.
C15_EveryAccessInBounds ==
    /\ pc = "check" => ~LandingIndexOutOfRange(falling, width, height, board)
    /\ pc = "update" => ~UpdateIndexOutOfRange(board, width, height)
    /\ pc # "panic"

\* C17: each tick consumes at most one pending command, and only when a
\* piece is active at the start of the tick.  The only step that takes a key
\* from the pending ones is the poll, it takes exactly the oldest one and
\* leaves the poll, and the poll is reached only with an active piece.  A
\* tick that starts with no active piece goes from the spawn through the
\* landing check, clearing pass and re-check without consuming a key, and
\* the loop is left only on GameOver at the top of an iteration or when the
\* poll reads "q": a quit pending during a spawn tick stays pending.
C17_OneCommandPerActiveTick ==
    /\ [](pc = "input" => falling # None)
    /\ [][/\ Len(pending') >= Len(pending) - 1
          /\ Len(pending') < Len(pending) =>
                /\ pc = "input"
                /\ pc' \in {"check", "exit"}
                /\ key' = Head(pending)
                /\ pending' = Tail(pending)
          /\ (pc = "loop" /\ state = "PLAY" /\ falling = None /\ pc' # pc) =>
                (pc' = "check" /\ pending' = pending)
          /\ pc \in {"check", "clear", "update"} =>
                (pc' # "exit" /\ Len(pending') >= Len(pending))
          /\ (pc' = "exit" /\ pc # "exit") =>
                \/ pc = "loop" /\ state = "LOSE"
                \/ pc = "input" /\ pending # <<>> /\ Head(pending) = "q"
         ]_vars

\* a spawn has just run while a quit was the oldest pending key, and the
\* loop goes on
C17_Witness ==
    /\ SpawnTick
    /\ state = "PLAY"
    /\ pending # <<>>
    /\ Head(pending) = "q"

----------------------------------------------------------------------------
(* Claims about the cells of the board and the active piece *)

OccupiedCells(b) ==
    Cardinality({c \in (0..(height - 1)) \X (0..(width - 1)) : b[c[1]][c[2]] # EMPTY_CELL})

\* every tetromino drawn is either still the active piece or has been locked
PiecesLocked == spawned - (IF falling = None THEN 0 ELSE 1)

\* line-clear points / 100: soft drops add less than 100 in the runs checked
RowsScored == score \div 100

\* C19: cell conservation: in every reachable state with state = Playing the
\* number of Occupied board cells is 4 x (pieces locked so far) minus
\* width x (rows scored so far); a lock that has just run added exactly four
\* cells (it overwrote no Occupied cell), and a clearing pass that has just
\* run removed exactly width cells per 100 points it awarded.
C19_CellConservation ==
    state = "PLAY" =>
       /\ OccupiedCells(board) = 4 * PiecesLocked - width * RowsScored
       /\ (pc = "clear" /\ call.ret) =>
             OccupiedCells(board) = OccupiedCells(prev.board) + 4
       /\ pc = "update" =>
             OccupiedCells(board) =
                OccupiedCells(prev.board) - width * ((score - prev.score) \div 100)

\* C20: while the state is Playing, a clearing pass that has just shifted
\* rows down while a piece is active has not moved an Occupied cell onto a
\* cell held by the active piece.
C20_ShiftKeepsPieceClear ==
    (pc = "update" /\ state = "PLAY" /\ falling # None /\ board # prev.board) =>
       \A i \in 0..3 :
          LET block == falling[1].blocks[i]
          IN  ~(/\ InRange(block.x, block.y, width, height)
                /\ board[block.y][block.x] # EMPTY_CELL
                /\ prev.board[block.y][block.x] = EMPTY_CELL)

----------------------------------------------------------------------------
(* Claims about progress *)

\* C21: when the loop keeps ticking (nobody quits) and the fall comes due
\* again and again, every piece that becomes active is eventually locked
\* into the board or the game is over, whatever sequence of left, right,
\* rotate and soft-drop keys is pressed; a fall that is rejected does not
\* leave the piece unlocked for ever.
C21_PieceEventuallyLocked ==
    (falling # None) ~> (falling = None \/ state = "LOSE")

\* a fall has just been rejected while the game goes on: the piece is still
\* active and sits on a cell that was shifted under it
C21_Witness ==
    /\ pc = "input"
    /\ state = "PLAY"
    /\ falling # None
    /\ call.fn = "translate"
    /\ call.offset = Point(0, 1)
    /\ ~call.ret

====
